---------------------------- MODULE Spec2Model ----------------------------
(***************************************************************************)
(* The live round engine of chess-trivia (game/page.tsx, GameContent): a   *)
(* React component whose state is driven by one-second interval callbacks, *)
(* by Twitch chat messages delivered to ws.onmessage, and by the           *)
(* presenter's start / restart buttons.                                    *)
(*                                                                         *)
(* React specifics that the model keeps:                                   *)
(*  - a callback registered by an effect (ws.onmessage, the setInterval    *)
(*    callback) sees the values of the render in which the effect last     *)
(*    ran; it is replaced only when one of the effect's deps changes;      *)
(*  - effects are flushed after the state update that changed their deps,  *)
(*    in a later task: a chat message or a due interval callback can run   *)
(*    in between with the previous closure;                                *)
(*  - state updaters (setScores(prev => ...)) read the current state.      *)
(*                                                                         *)
(* Time is counted in sub-ticks: SubTicks sub-ticks make one second.       *)
(***************************************************************************)
EXTENDS Integers, Sequences, FiniteSets, TLC

\* ------------------------------------------------------------ bounds ----
MaxQuestions == 2     \* longest question set drawn by the fetch
MaxParticipants == 2  \* chat participants
SubTicks == 2         \* sub-ticks per second
ChatWindow == 0       \* chat reaches an Open phase within ChatWindow sub-ticks of its
                      \* start, or from ChatWindow sub-ticks before its nominal end on
MaxAnswers == 2       \* answers of one round that change the ledger

\* --------------------------------------------------- program constants --
COUNTDOWN_TIME == 10
QUESTION_PREVIEW_TIME == 5
ANSWER_TIME == 15
REVEAL_TIME == 10
BASE_MAX_POINTS == 500
POINTS_INCREMENT == 100
MIN_POINTS == 100
STREAK_BONUS == 100

Participants == 1..MaxParticipants
Messages == {"!a", "!b", "!d", "a"}
GameStates == {"loading", "ready", "countdown", "question-preview",
               "question", "reveal", "finished"}

\* A question as the round engine uses it: the number of options and the
\* index of the correct one.
QuestionAt(i) == IF i % 2 = 1 THEN [options |-> 4, correctIndex |-> 0]
                 ELSE [options |-> 2, correctIndex |-> 1]
QuestionSets == { [i \in 1..n |-> QuestionAt(i)] : n \in 0..MaxQuestions }

OpenDeadline == ANSWER_TIME * SubTicks
\* timeTaken saturates one sub-tick past the deadline: timeRatio is 0 from
\* the deadline on
MaxTimeTaken == OpenDeadline + 1

VARIABLES
  gameState,            \* useState<GameState>
  questions,            \* useState<Question[]>
  currentQuestionIndex, \* useState(0)
  timeLeft,             \* useState(COUNTDOWN_TIME)
  scores,               \* useState<Map>: sequence of entries in insertion order
  answeredThisRound,    \* useState<Set<string>>
  error,                \* useState('')
  showOptions,          \* useState(false)
  timeTaken,            \* Date.now() - questionStartTimeRef.current, in sub-ticks, saturating
  wsHandler,            \* the handleChatMessage closure held by ws.onmessage
  timer,                \* the armed setInterval callback and what it closed over
  intervalElapsed,      \* sub-ticks since the interval was armed or last fired
  pendingDeps,          \* changed state whose effects have not been flushed yet
  ledgerUpdates,        \* answers of this round that changed the ledger
  call                  \* the function invocation in progress outside the round
                        \* engine: its name, arguments, locals and result

vars == <<gameState, questions, currentQuestionIndex, timeLeft, scores,
          answeredThisRound, error, showOptions, timeTaken, wsHandler,
          timer, intervalElapsed, pendingDeps, ledgerUpdates, call>>

\* ----------------------------------------------------------- helpers ----
\* no invocation in progress
NoCall == [fn |-> "none"]

NoHandler == [gameState |-> "none", showOptions |-> FALSE,
              currentQuestionIndex |-> 0, answeredThisRound |-> {}]
NoTimer == [gameState |-> "none", answeredThisRound |-> {},
            currentQuestionIndex |-> 0]

Min(a, b) == IF a <= b THEN a ELSE b
Max(a, b) == IF a >= b THEN a ELSE b

\* Math.round of the rational n / d (d > 0, n >= 0): floor(n/d + 1/2)
MathRound(n, d) == (2 * n + d) \div (2 * d)

getMaxPoints(questionIndex) == BASE_MAX_POINTS + (questionIndex * POINTS_INCREMENT)

\* basePoints of a correct answer given after e sub-ticks:
\* timeRatio = max(0, (ANSWER_TIME - timeTaken) / ANSWER_TIME)
\* Math.round(MIN_POINTS + (maxPoints - MIN_POINTS) * timeRatio)
basePoints_Truncated(isCorrect, questionIndex, e) ==
  IF isCorrect
  THEN (MIN_POINTS * OpenDeadline
          + (getMaxPoints(questionIndex) - MIN_POINTS) * Max(0, OpenDeadline - e))
       \div OpenDeadline
  ELSE 0

basePoints(isCorrect, questionIndex, e) ==
  IF isCorrect
  THEN MathRound(MIN_POINTS * OpenDeadline
                   + (getMaxPoints(questionIndex) - MIN_POINTS) * Max(0, OpenDeadline - e),
                 OpenDeadline)
  ELSE 0

\* answerMap[message] on the object literal; -1 stands for undefined.  The
\* lookup also finds the members the literal inherits from Object.prototype
\* whose names are lower-case: -2 stands for such a member, a function or
\* an object that is not undefined, is no number, and for which
\* answerIndex >= n is false for every n
answerMap(message) ==
  CASE message = "!a" -> 0
    [] message = "!b" -> 1
    [] message = "!c" -> 2
    [] message = "!d" -> 3
    [] message \in {"constructor", "__proto__"} -> -2
    [] OTHER -> -1

\* Map access on the ledger
Has(m, u) == \E i \in 1..Len(m) : m[i].username = u
PosOf(m, u) == CHOOSE i \in 1..Len(m) : m[i].username = u
Get(m, u) == IF Has(m, u) THEN m[PosOf(m, u)]
             ELSE [username |-> u, score |-> 0, streak |-> 0]
\* Map.set keeps the position of an existing key and appends a new one
MapSet(m, u, e) == IF Has(m, u) THEN [m EXCEPT ![PosOf(m, u)] = e]
                   ELSE Append(m, e)

\* the updater with the streak read from a stale entry
AnswerUpdater_StaleStreak(prev, chatUsername, isCorrect, points) ==
  LET existing == Get(prev, chatUsername)
      newStreak == IF isCorrect THEN 1 ELSE 0
      streakPoints == IF isCorrect /\ newStreak >= 2 THEN STREAK_BONUS ELSE 0
  IN MapSet(prev, chatUsername,
            [existing EXCEPT !.score = existing.score + points + streakPoints,
                             !.streak = newStreak])

\* the setScores updater of handleChatMessage
AnswerUpdater(prev, chatUsername, isCorrect, points) ==
  LET existing == Get(prev, chatUsername)
      newStreak == IF isCorrect THEN existing.streak + 1 ELSE 0
      streakPoints == IF isCorrect /\ newStreak >= 2 THEN STREAK_BONUS ELSE 0
  IN MapSet(prev, chatUsername,
            [existing EXCEPT !.score = existing.score + points + streakPoints,
                             !.streak = newStreak])

\* the setScores updater of the answer timer; answered is the set the
\* interval callback closed over
StreakResetUpdater(prevScores, answered) ==
  [i \in 1..Len(prevScores) |->
     IF prevScores[i].username \notin answered /\ prevScores[i].streak > 0
     THEN [prevScores[i] EXCEPT !.streak = 0]
     ELSE prevScores[i]]

\* ------------------------------------------------------------- Init -----
Init ==
  /\ gameState = "loading"
  /\ questions = <<>>
  /\ currentQuestionIndex = 0
  /\ timeLeft = COUNTDOWN_TIME
  /\ scores = <<>>
  /\ answeredThisRound = {}
  /\ error = ""
  /\ showOptions = FALSE
  /\ timeTaken = MaxTimeTaken
  /\ wsHandler = NoHandler
  /\ timer = NoTimer
  /\ intervalElapsed = 0
  /\ pendingDeps = {}
  /\ ledgerUpdates = 0
  /\ call = NoCall

\* ---------------------------------------------------------- actions -----
\* fetchQuestions, response ok
FetchQuestionsOk(qs) ==
  /\ gameState = "loading" /\ error = ""
  /\ questions' = qs
  /\ gameState' = "ready"
  /\ pendingDeps' = pendingDeps \cup {"gameState", "questions"}
  /\ UNCHANGED <<currentQuestionIndex, timeLeft, scores, answeredThisRound,
                 error, showOptions, timeTaken, wsHandler, timer, intervalElapsed,
                 ledgerUpdates>>
  /\ UNCHANGED call

\* fetchQuestions, response not ok or fetch threw
FetchQuestionsFail ==
  /\ gameState = "loading" /\ error = ""
  /\ error' = "Failed to fetch questions"
  /\ UNCHANGED <<gameState, questions, currentQuestionIndex, timeLeft, scores,
                 answeredThisRound, showOptions, timeTaken, wsHandler, timer,
                 intervalElapsed, pendingDeps, ledgerUpdates>>
  /\ UNCHANGED call

\* a start that leaves timeLeft as the last round left it
startGame_KeepTimeLeft ==
  /\ gameState = "ready" /\ error = ""
  /\ gameState' = "countdown"
  /\ pendingDeps' = pendingDeps \cup {"gameState"}
  /\ UNCHANGED <<questions, currentQuestionIndex, timeLeft, scores, answeredThisRound,
                 error, showOptions, timeTaken, wsHandler, timer, intervalElapsed,
                 ledgerUpdates>>
  /\ UNCHANGED call

\* the Start button, rendered in 'ready' only
startGame ==
  /\ gameState = "ready" /\ error = ""
  /\ gameState' = "countdown"
  /\ timeLeft' = COUNTDOWN_TIME
  /\ pendingDeps' = pendingDeps \cup {"gameState"}
  /\ UNCHANGED <<questions, currentQuestionIndex, scores, answeredThisRound,
                 error, showOptions, timeTaken, wsHandler, timer, intervalElapsed,
                 ledgerUpdates>>
  /\ UNCHANGED call

\* a restart that keeps the ledger
restartGame_KeepScores ==
  /\ gameState = "finished" /\ error = ""
  /\ currentQuestionIndex' = 0
  /\ answeredThisRound' = {}
  /\ showOptions' = FALSE
  /\ gameState' = "ready"
  /\ pendingDeps' = pendingDeps \cup {"gameState", "currentQuestionIndex", "answeredThisRound"}
  /\ UNCHANGED <<scores, ledgerUpdates>>
  /\ UNCHANGED <<questions, timeLeft, error, timeTaken, wsHandler, timer, intervalElapsed>>
  /\ UNCHANGED call

\* the Play Again button, rendered in 'finished' only
restartGame ==
  /\ gameState = "finished" /\ error = ""
  /\ currentQuestionIndex' = 0
  /\ scores' = <<>>
  /\ answeredThisRound' = {}
  /\ showOptions' = FALSE
  /\ gameState' = "ready"
  /\ pendingDeps' = pendingDeps \cup {"gameState", "currentQuestionIndex", "answeredThisRound"}
  /\ ledgerUpdates' = 0
  /\ UNCHANGED <<questions, timeLeft, error, timeTaken, wsHandler, timer, intervalElapsed>>
  /\ UNCHANGED call

\* the guards without the phase test
Accepts_NoPhaseCheck(h, chatUsername, message) ==
  /\ h.currentQuestionIndex + 1 <= Len(questions)
  /\ chatUsername \notin h.answeredThisRound
  /\ answerMap(message) # -1
  /\ answerMap(message) < questions[h.currentQuestionIndex + 1].options

\* handleChatMessage as ws.onmessage holds it: h is the closure
Accepts(h, chatUsername, message) ==
  /\ h.gameState = "question" /\ h.showOptions
  /\ h.currentQuestionIndex + 1 <= Len(questions)
  /\ chatUsername \notin h.answeredThisRound
  /\ answerMap(message) # -1
  /\ answerMap(message) < questions[h.currentQuestionIndex + 1].options

IsCorrect(h, message) ==
  answerMap(message) = questions[h.currentQuestionIndex + 1].correctIndex

\* a handler that writes the sender's entry into a new Map instead of the
\* updater's prev
handleChatMessage_NewMap(h, chatUsername, message) ==
  IF Accepts(h, chatUsername, message)
  THEN /\ scores' = AnswerUpdater(<<>>, chatUsername, IsCorrect(h, message),
                      basePoints(IsCorrect(h, message), h.currentQuestionIndex, timeTaken))
       /\ answeredThisRound' = answeredThisRound \cup {chatUsername}
       /\ pendingDeps' = pendingDeps \cup {"answeredThisRound"}
       /\ UNCHANGED <<gameState, questions, currentQuestionIndex, timeLeft, error,
                      showOptions, timeTaken, wsHandler, timer, intervalElapsed>>
  ELSE UNCHANGED <<gameState, questions, currentQuestionIndex, timeLeft, scores,
                   answeredThisRound, error, showOptions, timeTaken, wsHandler,
                   timer, intervalElapsed, pendingDeps>>

handleChatMessage(h, chatUsername, message) ==
  IF Accepts(h, chatUsername, message)
  THEN /\ scores' = AnswerUpdater(scores, chatUsername, IsCorrect(h, message),
                      basePoints(IsCorrect(h, message), h.currentQuestionIndex, timeTaken))
       /\ answeredThisRound' = answeredThisRound \cup {chatUsername}
       /\ pendingDeps' = pendingDeps \cup {"answeredThisRound"}
       /\ UNCHANGED <<gameState, questions, currentQuestionIndex, timeLeft, error,
                      showOptions, timeTaken, wsHandler, timer, intervalElapsed>>
  ELSE UNCHANGED <<gameState, questions, currentQuestionIndex, timeLeft, scores,
                   answeredThisRound, error, showOptions, timeTaken, wsHandler,
                   timer, intervalElapsed, pendingDeps>>

\* the instants of the Open phase at which the chat transport delivers
ChatInstant == timeTaken <= ChatWindow \/ timeTaken >= OpenDeadline - ChatWindow

\* ws.onmessage with a PRIVMSG of chatUsername (message is already trimmed
\* and lower-cased)
onmessage(chatUsername, message) ==
  /\ wsHandler # NoHandler
  /\ handleChatMessage(wsHandler, chatUsername, message)
  /\ ledgerUpdates' = IF scores' = scores THEN ledgerUpdates ELSE ledgerUpdates + 1
  /\ ledgerUpdates' <= MaxAnswers
  /\ UNCHANGED call

\* user names are interchangeable: participants enter the ledger in the
\* order of their numbers
NextNewcomer(chatUsername) ==
  \/ Has(scores, chatUsername)
  \/ \A v \in Participants : v < chatUsername => Has(scores, v)

\* a chat message arrives at one of the modelled instants
ChatMessage(chatUsername, message) ==
  /\ wsHandler.gameState = "question" => ChatInstant
  /\ NextNewcomer(chatUsername)
  /\ onmessage(chatUsername, message)

\* wall-clock time passes by one sub-tick
AdvanceTime ==
  /\ pendingDeps = {}
  /\ timer # NoTimer
  /\ intervalElapsed < SubTicks
  /\ intervalElapsed' = intervalElapsed + 1
  /\ timeTaken' = Min(timeTaken + 1, MaxTimeTaken)
  /\ UNCHANGED <<gameState, questions, currentQuestionIndex, timeLeft, scores,
                 answeredThisRound, error, showOptions, wsHandler, timer, pendingDeps,
                 ledgerUpdates>>
  /\ UNCHANGED call

\* the setInterval callbacks: setTimeLeft(prev => ...)
CountdownTick ==
  /\ timer.gameState = "countdown"
  /\ IF timeLeft <= 1
     THEN /\ gameState' = "question-preview"
          /\ showOptions' = FALSE
          /\ timeLeft' = QUESTION_PREVIEW_TIME
          /\ pendingDeps' = pendingDeps \cup {"gameState"}
     ELSE /\ timeLeft' = timeLeft - 1
          /\ UNCHANGED <<gameState, showOptions, pendingDeps>>
  /\ UNCHANGED <<questions, currentQuestionIndex, scores, answeredThisRound, timeTaken>>

PreviewTick ==
  /\ timer.gameState = "question-preview"
  /\ IF timeLeft <= 1
     THEN /\ gameState' = "question"
          /\ showOptions' = TRUE
          /\ timeTaken' = 0
          /\ timeLeft' = ANSWER_TIME
          /\ pendingDeps' = pendingDeps \cup {"gameState"}
     ELSE /\ timeLeft' = timeLeft - 1
          /\ UNCHANGED <<gameState, showOptions, timeTaken, pendingDeps>>
  /\ UNCHANGED <<questions, currentQuestionIndex, scores, answeredThisRound>>

AnswerTick ==
  /\ timer.gameState = "question"
  /\ IF timeLeft <= 1
     THEN /\ scores' = StreakResetUpdater(scores, timer.answeredThisRound)
          /\ gameState' = "reveal"
          /\ timeLeft' = REVEAL_TIME
          /\ pendingDeps' = pendingDeps \cup {"gameState"}
     ELSE /\ timeLeft' = timeLeft - 1
          /\ UNCHANGED <<gameState, scores, pendingDeps>>
  /\ UNCHANGED <<questions, currentQuestionIndex, answeredThisRound, showOptions, timeTaken>>

\* the reveal callback without setAnsweredThisRound(new Set())
RevealTick_KeepAnswered ==
  /\ timer.gameState = "reveal"
  /\ IF timeLeft <= 1
     THEN IF timer.currentQuestionIndex >= Len(questions) - 1
          THEN /\ gameState' = "finished"
               /\ timeLeft' = 0
               /\ pendingDeps' = pendingDeps \cup {"gameState"}
               /\ UNCHANGED <<currentQuestionIndex, answeredThisRound, showOptions>>
          ELSE /\ currentQuestionIndex' = currentQuestionIndex + 1
               /\ showOptions' = FALSE
               /\ gameState' = "question-preview"
               /\ timeLeft' = QUESTION_PREVIEW_TIME
               /\ pendingDeps' = pendingDeps \cup {"gameState", "currentQuestionIndex"}
               /\ UNCHANGED answeredThisRound
     ELSE /\ timeLeft' = timeLeft - 1
          /\ UNCHANGED <<gameState, currentQuestionIndex, answeredThisRound,
                         showOptions, pendingDeps>>
  /\ UNCHANGED <<questions, scores, timeTaken>>

\* the reveal callback going straight to the next question's Open phase
RevealTick_SkipPreview ==
  /\ timer.gameState = "reveal"
  /\ IF timeLeft <= 1
     THEN IF timer.currentQuestionIndex >= Len(questions) - 1
          THEN /\ gameState' = "finished"
               /\ timeLeft' = 0
               /\ pendingDeps' = pendingDeps \cup {"gameState"}
               /\ UNCHANGED <<currentQuestionIndex, answeredThisRound, showOptions>>
          ELSE /\ currentQuestionIndex' = currentQuestionIndex + 1
               /\ answeredThisRound' = {}
               /\ showOptions' = TRUE
               /\ gameState' = "question"
               /\ timeLeft' = ANSWER_TIME
               /\ pendingDeps' = pendingDeps \cup
                     {"gameState", "currentQuestionIndex", "answeredThisRound"}
     ELSE /\ timeLeft' = timeLeft - 1
          /\ UNCHANGED <<gameState, currentQuestionIndex, answeredThisRound,
                         showOptions, pendingDeps>>
  /\ UNCHANGED <<questions, scores, timeTaken>>

RevealTick ==
  /\ timer.gameState = "reveal"
  /\ IF timeLeft <= 1
     THEN IF timer.currentQuestionIndex >= Len(questions) - 1
          THEN /\ gameState' = "finished"
               /\ timeLeft' = 0
               /\ pendingDeps' = pendingDeps \cup {"gameState"}
               /\ UNCHANGED <<currentQuestionIndex, answeredThisRound, showOptions>>
          ELSE /\ currentQuestionIndex' = currentQuestionIndex + 1
               /\ answeredThisRound' = {}
               /\ showOptions' = FALSE
               /\ gameState' = "question-preview"
               /\ timeLeft' = QUESTION_PREVIEW_TIME
               /\ pendingDeps' = pendingDeps \cup
                     {"gameState", "currentQuestionIndex", "answeredThisRound"}
     ELSE /\ timeLeft' = timeLeft - 1
          /\ UNCHANGED <<gameState, currentQuestionIndex, answeredThisRound,
                         showOptions, pendingDeps>>
  /\ UNCHANGED <<questions, scores, timeTaken>>

\* the armed interval fires
Tick ==
  /\ timer # NoTimer
  /\ intervalElapsed = SubTicks
  /\ intervalElapsed' = 0
  /\ \/ CountdownTick
     \/ PreviewTick
     \/ AnswerTick
     \/ RevealTick
  /\ UNCHANGED <<error, wsHandler, timer, ledgerUpdates>>
  /\ UNCHANGED call

\* React flushes the effects whose deps changed
TimerDepsChanged ==
  \/ "gameState" \in pendingDeps
  \/ gameState = "question" /\ "answeredThisRound" \in pendingDeps
  \/ gameState = "reveal" /\ pendingDeps \cap {"currentQuestionIndex", "questions"} # {}

FlushEffects ==
  /\ pendingDeps # {}
  /\ pendingDeps' = {}
  /\ wsHandler' =
       IF "gameState" \in pendingDeps
       THEN IF gameState = "loading" THEN NoHandler
            ELSE [gameState |-> gameState, showOptions |-> showOptions,
                  currentQuestionIndex |-> currentQuestionIndex,
                  answeredThisRound |-> answeredThisRound]
       ELSE wsHandler
  /\ IF TimerDepsChanged
     THEN /\ timer' =
               IF gameState \in {"countdown", "question-preview", "question", "reveal"}
               THEN [gameState |-> gameState,
                     answeredThisRound |-> IF gameState = "question"
                                           THEN answeredThisRound ELSE {},
                     currentQuestionIndex |-> IF gameState = "reveal"
                                              THEN currentQuestionIndex ELSE 0]
               ELSE NoTimer
          /\ intervalElapsed' = 0
     ELSE UNCHANGED <<timer, intervalElapsed>>
  /\ UNCHANGED <<gameState, questions, currentQuestionIndex, timeLeft, scores,
                 answeredThisRound, error, showOptions, timeTaken, ledgerUpdates>>
  /\ UNCHANGED call

Next ==
  \/ \E qs \in QuestionSets : FetchQuestionsOk(qs)
  \/ FetchQuestionsFail
  \/ startGame
  \/ restartGame
  \/ \E u \in Participants, m \in Messages : ChatMessage(u, m)
  \/ AdvanceTime
  \/ Tick
  \/ FlushEffects

Spec == Init /\ [][Next]_vars

\* fairness: time passes, a due interval callback runs, React flushes effects
LiveSpec == Init /\ [][Next]_vars
            /\ WF_vars(AdvanceTime) /\ WF_vars(Tick) /\ WF_vars(FlushEffects)

\* ------------------------------------------- scoring of one answer -----
\* The Open phase of question index i of a full round (ROUND_SIZE questions),
\* entered by a participant who answered the k questions before it correctly
\* at elapsed 0, at every elapsed time: the states in which handleChatMessage
\* computes points.
ROUND_SIZE == 15

\* sum of getMaxPoints(j) for j in a..b
SumMaxPoints(a, b) == IF b < a THEN 0
                      ELSE (b - a + 1) * BASE_MAX_POINTS
                           + POINTS_INCREMENT * (((a + b) * (b - a + 1)) \div 2)

PriorLedger(i, k) ==
  IF k = 0 THEN <<>>
  ELSE << [username |-> 1,
           score |-> SumMaxPoints(i - k, i - 1) + STREAK_BONUS * (k - 1),
           streak |-> k] >>

InitScore ==
  /\ gameState = "question"
  /\ questions = [i \in 1..ROUND_SIZE |-> QuestionAt(i)]
  /\ currentQuestionIndex \in 0..(ROUND_SIZE - 1)
  /\ timeTaken \in 0..MaxTimeTaken
  /\ timeLeft = Max(1, ANSWER_TIME - (timeTaken \div SubTicks))
  /\ intervalElapsed = timeTaken % SubTicks
  /\ \E k \in 0..Min(currentQuestionIndex, 2) : scores = PriorLedger(currentQuestionIndex, k)
  /\ answeredThisRound = {}
  /\ error = ""
  /\ showOptions = TRUE
  /\ wsHandler = [gameState |-> "question", showOptions |-> TRUE,
                  currentQuestionIndex |-> currentQuestionIndex,
                  answeredThisRound |-> {}]
  /\ timer = [gameState |-> "question", answeredThisRound |-> {},
              currentQuestionIndex |-> 0]
  /\ pendingDeps = {}
  /\ ledgerUpdates = MaxAnswers - 1
  /\ call = NoCall

NextScore == \E u \in Participants, m \in Messages : onmessage(u, m)

SpecScore == InitScore /\ [][NextScore]_vars

TypeOK ==
  /\ gameState \in GameStates
  /\ currentQuestionIndex \in 0..ROUND_SIZE
  /\ timeLeft \in 0..ANSWER_TIME
  /\ timeTaken \in 0..MaxTimeTaken
  /\ intervalElapsed \in 0..SubTicks
  /\ answeredThisRound \subseteq Participants

\* =============================================================== claims ==
Score(m, u) == Get(m, u).score
Streak(m, u) == Get(m, u).streak
\* the question on screen, and whether a message names its correct option
NamesCorrect(m) ==
  /\ currentQuestionIndex + 1 <= Len(questions)
  /\ answerMap(m) = questions[currentQuestionIndex + 1].correctIndex

\* what every step that handles an accepted answer does besides the ledger
\* update: it schedules the effects that depend on answeredThisRound and
\* leaves the phase, the clock and the registered callbacks alone
AnswerStep ==
  /\ "answeredThisRound" \in pendingDeps'
  /\ UNCHANGED <<gameState, timeLeft, intervalElapsed, wsHandler, timer>>

\* C1: during the Open phase of a question, a chat answer of a participant
\* who is already in answeredThisRound changes neither the ledger nor
\* answeredThisRound.
C1_OneAnswerPerQuestion ==
  [][\A u \in Participants, m \in Messages :
       (gameState = "question" /\ u \in answeredThisRound /\ ChatMessage(u, m))
         => (scores' = scores /\ answeredThisRound' = answeredThisRound)]_vars

\* C2: a chat message delivered while the phase is not 'question' leaves
\* scores, streaks, answeredThisRound, the phase and the question index as
\* they are.
C2_ChatOnlyInOpen ==
  [][\A u \in Participants, m \in Messages :
       (gameState # "question" /\ ChatMessage(u, m))
         => UNCHANGED <<scores, answeredThisRound, gameState, currentQuestionIndex>>]_vars

\* C3: until the round is finished no step lowers a participant's score, and
\* a chat answer that is incorrect or arrives when the phase is no longer
\* 'question' leaves the sender's score as it is.
C3_ScoreMonotone ==
  [][gameState # "finished" =>
       /\ \A u \in Participants : Score(scores', u) >= Score(scores, u)
       /\ \A u \in Participants, m \in Messages :
            (ChatMessage(u, m) /\ (gameState # "question" \/ ~NamesCorrect(m)))
              => Score(scores', u) = Score(scores, u)]_vars

\* C4: an accepted answer sets the sender's streak to the ledger's current
\* streak plus one when the message names the correct option of the question
\* on screen and to 0 otherwise (no entry counts as streak 0); the entry
\* written carries that streak together with the new score.
C4_StreakUpdate ==
  [][AnswerStep =>
       \A u \in Participants, m \in Messages :
         (Accepts(wsHandler, u, m) /\ ChatMessage(u, m))
           => /\ Has(scores', u)
              /\ Streak(scores', u) = IF NamesCorrect(m) THEN Streak(scores, u) + 1 ELSE 0
              /\ Score(scores', u) >= Score(scores, u)
              /\ (Streak(scores', u) = 0 => Score(scores', u) = Score(scores, u))]_vars

C4_Witness ==
  \E u \in Participants : Has(scores, u) /\ Streak(scores, u) = 2

\* C5: the step from 'question' to 'reveal' changes no score, sets to 0 the
\* streak of every ledger participant outside answeredThisRound, and keeps
\* the streak of every participant in answeredThisRound.
C5_SilentStreakReset ==
  [][(gameState = "question" /\ gameState' = "reveal") =>
       /\ Len(scores') = Len(scores)
       /\ \A i \in 1..Len(scores) :
            /\ scores'[i].username = scores[i].username
            /\ scores'[i].score = scores[i].score
            /\ (scores[i].username \notin answeredThisRound => scores'[i].streak = 0)
            /\ (scores[i].username \in answeredThisRound
                  => scores'[i].streak = scores[i].streak)]_vars

\* C6: an accepted correct answer to question index i after e sub-ticks adds
\* round(100 + (400 + 100 i) * max(0, 1 - e / (15 SubTicks))), plus 100 when
\* the new streak is at least 2; an accepted incorrect answer adds 0.  So the
\* base is at most 500 for i = 0 and 1900 for i = 14, it is 500 + 100 i at
\* e = 0 and 100 from the deadline on.
C6_Points ==
  [][\A u \in Participants, m \in Messages :
       (Accepts(wsHandler, u, m) /\ onmessage(u, m)) =>
         LET i == currentQuestionIndex
             d == 15 * SubTicks
             left == IF timeTaken >= d THEN 0 ELSE d - timeTaken
             exact == 100 * d + (400 + 100 * i) * left    \* d times the real value
             bonus == IF Streak(scores', u) >= 2 THEN 100 ELSE 0
             base == Score(scores', u) - Score(scores, u) - bonus
         IN IF NamesCorrect(m)
            THEN /\ 2 * (base * d - exact) <= d
                 /\ 2 * (base * d - exact) > -d
                 /\ base >= 100 /\ base <= 500 + 100 * i
                 /\ (i = 0 => base <= 500)
                 /\ (i = 14 => base <= 1900)
                 /\ (timeTaken = 0 => base = 500 + 100 * i)
                 /\ (timeTaken >= d => base = 100)
            ELSE Score(scores', u) = Score(scores, u)]_vars

\* scenario B of the specification: 500 from question 1, then 100 + 100 for a
\* correct answer to question 2 at the deadline
C6_Witness ==
  /\ currentQuestionIndex = 1
  /\ timeTaken = 15 * SubTicks
  /\ \E u \in Participants : Has(scores, u) /\ Score(scores, u) = 700 /\ Streak(scores, u) = 2

\* C7: gameState changes only along loading -> ready, ready -> countdown
\* (by startGame, never by an interval callback), countdown ->
\* question-preview, question-preview -> question, question -> reveal,
\* reveal -> question-preview with the index raised by exactly 1, reveal ->
\* finished, finished -> ready; the index changes on no other edge but the
\* restart's.
C7_PhaseOrder ==
  [][/\ gameState' # gameState =>
          \/ gameState = "loading" /\ gameState' = "ready"
                /\ currentQuestionIndex' = currentQuestionIndex
          \/ gameState = "ready" /\ gameState' = "countdown"
                /\ currentQuestionIndex' = currentQuestionIndex
          \/ gameState = "countdown" /\ gameState' = "question-preview"
                /\ currentQuestionIndex' = currentQuestionIndex
          \/ gameState = "question-preview" /\ gameState' = "question"
                /\ currentQuestionIndex' = currentQuestionIndex
          \/ gameState = "question" /\ gameState' = "reveal"
                /\ currentQuestionIndex' = currentQuestionIndex
          \/ gameState = "reveal" /\ gameState' = "question-preview"
                /\ currentQuestionIndex' = currentQuestionIndex + 1
          \/ gameState = "reveal" /\ gameState' = "finished"
                /\ currentQuestionIndex' = currentQuestionIndex
          \/ gameState = "finished" /\ gameState' = "ready"
     /\ gameState' = gameState => currentQuestionIndex' = currentQuestionIndex
     /\ gameState = "ready" => ~Tick]_vars

C7_Witness ==
  gameState = "question" /\ currentQuestionIndex = 1 /\ timeTaken = 0

\* C8: the Open phase ends exactly ANSWER_TIME seconds after it began,
\* whatever chat messages arrived in it.
C8_DeadlineFixed ==
  [][(gameState = "question" /\ gameState' = "reveal") => timeTaken = OpenDeadline]_vars

\* C9: with a question set of length N >= 1, a started round reaches
\* 'finished' under every schedule of chat messages, and the index stays
\* within 0..N-1 and moves only from i to i + 1 during the round.
C9_RoundCompletes ==
  /\ ((gameState = "countdown" /\ Len(questions) >= 1) ~> (gameState = "finished"))
  /\ [](Len(questions) >= 1 => currentQuestionIndex \in 0..(Len(questions) - 1))
  /\ [][gameState # "finished" =>
          currentQuestionIndex' \in {currentQuestionIndex, currentQuestionIndex + 1}]_vars

\* C10: in 'finished' a step that is not the presenter's restart changes
\* neither the phase nor the index nor any score or streak, and the phase
\* is left only for 'ready'.
C10_FinishedFrozen ==
  [][gameState = "finished" =>
       /\ ~restartGame => UNCHANGED <<gameState, currentQuestionIndex, scores>>
       /\ gameState' \in {"finished", "ready"}]_vars

C10_Witness ==
  /\ gameState = "finished" /\ pendingDeps = {}
  /\ \E u \in Participants : Has(scores, u) /\ Score(scores, u) > 0
  /\ ledgerUpdates < MaxAnswers

\* the closure ws.onmessage holds once the effects of a 'ready' render ran
ReadyHandler ==
  [gameState |-> "ready", showOptions |-> FALSE,
   currentQuestionIndex |-> 0, answeredThisRound |-> {}]

\* what restartGame sets itself
RestartCleared ==
  /\ gameState' = "ready" /\ scores' = <<>> /\ answeredThisRound' = {}
  /\ currentQuestionIndex' = 0 /\ ~showOptions'

\* in 'ready' no interval callback runs, no time passes on an interval and
\* no chat message changes anything
ReadyQuiet ==
  /\ ~Tick /\ ~AdvanceTime
  /\ \A u \in Participants, m \in Messages : ChatMessage(u, m) => UNCHANGED vars

\* a 'ready' state whose effects have run, the first or one after a restart,
\* is the same in all that a round reads before overwriting it (startGame
\* overwrites timeLeft, the preview's last tick overwrites the start time)
ReadyLikeFirst ==
  (gameState = "ready" /\ pendingDeps = {}) =>
     /\ currentQuestionIndex = 0 /\ scores = <<>> /\ answeredThisRound = {}
     /\ ~showOptions /\ timer = NoTimer /\ wsHandler = ReadyHandler
     /\ error = "" /\ ledgerUpdates = 0

Others(m, u) == SelectSeq(m, LAMBDA e : e.username # u)

\* the ledger that holds the entry of u alone, if u has one
Alone(m, u) == SelectSeq(m, LAMBDA e : e.username = u)

\* C12: in the Open phase, the step that handles the accepted answer of a
\* participant u not yet in answeredThisRound leaves every other
\* participant's entry and place as they are, and the entry it writes for u
\* is the one the same answer gives when applied to u's own current entry
\* alone: the points are added to u's current score and streak, whatever
\* other answers were handled before it.
C12_BurstSafety ==
  [][(AnswerStep /\ gameState = "question" /\ answeredThisRound' # answeredThisRound) =>
       \E u \in Participants :
         /\ answeredThisRound' = answeredThisRound \cup {u}
         /\ Others(scores', u) = Others(scores, u)
         /\ \E m \in Messages :
              /\ Accepts(wsHandler, u, m)
              /\ Alone(scores', u) =
                   AnswerUpdater(Alone(scores, u), u, IsCorrect(wsHandler, m),
                                 basePoints(IsCorrect(wsHandler, m),
                                            wsHandler.currentQuestionIndex, timeTaken))]_vars

\* two participants have answered the question on screen and both hold points
C12_Witness ==
  /\ gameState = "question"
  /\ Cardinality(answeredThisRound) >= 2
  /\ \A u \in answeredThisRound : Has(scores, u) /\ Score(scores, u) > 0

\* ------------------------------------------------------- leaderboard -----
MaxBoard == 11        \* longest ledger ranked
MaxScorers == 3       \* entries of a ranked ledger that hold points
LEADERBOARD_SIZE == 10
BoardScores == {0, 500, 700}

\* Array.prototype.sort is stable: an element goes behind every element that
\* the comparator b.score - a.score does not put after it
RECURSIVE SortInsert_BeforeEquals(_, _)
SortInsert_BeforeEquals(sorted, e) ==
  IF sorted = <<>> THEN <<e>>
  ELSE IF Head(sorted).score > e.score
       THEN <<Head(sorted)>> \o SortInsert_BeforeEquals(Tail(sorted), e)
       ELSE <<e>> \o sorted

RECURSIVE SortInsert(_, _)
SortInsert(sorted, e) ==
  IF sorted = <<>> THEN <<e>>
  ELSE IF Head(sorted).score >= e.score
       THEN <<Head(sorted)>> \o SortInsert(Tail(sorted), e)
       ELSE <<e>> \o sorted

\* .sort((a, b) => b.score - a.score) on the first n values of the Map
RECURSIVE SortByScore(_, _)
SortByScore(m, n) ==
  IF n = 0 THEN <<>> ELSE SortInsert(SortByScore(m, n - 1), m[n])

\* Array.from(scores.values()).sort(...).slice(0, 10)
leaderboard(m) ==
  SubSeq(SortByScore(m, Len(m)), 1, Min(LEADERBOARD_SIZE, Len(m)))

\* ledgers of up to MaxBoard participants, at most MaxScorers of them with
\* points
BoardLedgers ==
  UNION { { [i \in 1..n |-> [username |-> i, score |-> f[i], streak |-> 0]] :
              f \in { g \in [1..n -> BoardScores] :
                        Cardinality({i \in 1..n : g[i] > 0}) <= MaxScorers } } :
          n \in 0..MaxBoard }

InitBoard ==
  /\ gameState = "finished"
  /\ questions = <<QuestionAt(1)>>
  /\ currentQuestionIndex = 0
  /\ timeLeft = 0
  /\ scores \in BoardLedgers
  /\ answeredThisRound = {}
  /\ error = ""
  /\ showOptions = FALSE
  /\ timeTaken = MaxTimeTaken
  /\ wsHandler = NoHandler
  /\ timer = NoTimer
  /\ intervalElapsed = 0
  /\ pendingDeps = {}
  /\ ledgerUpdates = 0
  /\ call = NoCall

\* a render evaluates the leaderboard expression
RenderLeaderboard ==
  /\ call = NoCall
  /\ call' = [fn |-> "leaderboard", result |-> leaderboard(scores)]
  /\ UNCHANGED <<gameState, questions, currentQuestionIndex, timeLeft, scores,
                 answeredThisRound, error, showOptions, timeTaken, wsHandler,
                 timer, intervalElapsed, pendingDeps, ledgerUpdates>>

NextBoard == RenderLeaderboard

SpecBoard == InitBoard /\ [][NextBoard]_vars

\* the place of the entry at position p of ledger m in the ranking: one more
\* than the number of entries with a higher score, or with the same score
\* and inserted earlier
Rank(m, p) ==
  1 + Cardinality({q \in 1..Len(m) :
                     \/ m[q].score > m[p].score
                     \/ (m[q].score = m[p].score /\ q < p)})

\* C13: the leaderboard holds min(10, size of the ledger) entries, and its
\* i-th entry is the ledger entry of rank i, where an entry ranks behind
\* those with a higher score and behind those with the same score that were
\* inserted earlier; the ledger {1: 700, 2: 0, 3: 500} ranks as 1, 3, 2.
C13_LeaderboardOrder ==
  call.fn = "leaderboard" =>
    /\ Len(call.result) = Min(10, Len(scores))
    /\ \A i \in 1..Len(call.result) :
         /\ Has(scores, call.result[i].username)
         /\ call.result[i] = Get(scores, call.result[i].username)
         /\ Rank(scores, PosOf(scores, call.result[i].username)) = i
    /\ (/\ Len(scores) = 3
        /\ scores[1].score = 700 /\ scores[2].score = 0 /\ scores[3].score = 500)
         => call.result = <<scores[1], scores[3], scores[2]>>

\* a ledger of eleven: the entry inserted last has 700 and leads, two tie at
\* 500, a participant without points is cut off
C13_Witness ==
  /\ call.fn = "leaderboard"
  /\ Len(scores) = 11 /\ Len(call.result) = 10
  /\ scores[11].score = 700 /\ call.result[1].username = 11
  /\ scores[2].score = 500 /\ scores[5].score = 500
  /\ call.result[2].username = 2 /\ call.result[3].username = 5

\* ---------------------------------------------------- answer parsing -----
MaxChatLen == 3       \* longest chat text drawn from ChatChars

\* the characters chat texts are drawn from
ChatChars == {" ", "!", "a", "b", "c", "d", "A", "D", "1"}

\* msgMatch[1]: a chat text as the sequence of its characters; (.+) matches
\* one character at least
RawTexts ==
  UNION { [1..n -> ChatChars] : n \in 1..MaxChatLen }
    \cup { <<"c", "o", "n", "s", "t", "r", "u", "c", "t", "o", "r">>,
           <<"_", "_", "p", "r", "o", "t", "o", "_", "_">>,
           <<" ", "!", "B", " ", " ">> }

\* String.prototype.trim
RECURSIVE trimStart(_)
trimStart(s) ==
  IF s # <<>> /\ Head(s) = " " THEN trimStart(Tail(s)) ELSE s

RECURSIVE trimEnd(_)
trimEnd(s) ==
  IF s # <<>> /\ s[Len(s)] = " " THEN trimEnd(SubSeq(s, 1, Len(s) - 1)) ELSE s

trim(s) == trimEnd(trimStart(s))

\* String.prototype.toLowerCase
toLowerCase(s) ==
  [i \in 1..Len(s) |->
     CASE s[i] = "A" -> "a"
       [] s[i] = "B" -> "b"
       [] s[i] = "C" -> "c"
       [] s[i] = "D" -> "d"
       [] OTHER -> s[i]]

\* the string made of the characters of s
RECURSIVE Join(_)
Join(s) == IF s = <<>> THEN "" ELSE Head(s) \o Join(Tail(s))

\* const chatMessage = msgMatch[1].trim().toLowerCase()
chatMessage(text) == Join(toLowerCase(trim(text)))

\* ws.onmessage with the PRIVMSG line of chatUsername that carries text
PRIVMSG(chatUsername, text) == onmessage(chatUsername, chatMessage(text))

\* the Open phase of a question with n options of which option k is correct
InitParse ==
  /\ gameState = "question"
  /\ \E n \in 2..4 : \E k \in 0..(n - 1) :
       questions = << [options |-> n, correctIndex |-> k] >>
  /\ currentQuestionIndex = 0
  /\ timeTaken \in {0, 1, OpenDeadline}
  /\ timeLeft = Max(1, ANSWER_TIME - (timeTaken \div SubTicks))
  /\ intervalElapsed = timeTaken % SubTicks
  /\ scores = <<>>
  /\ answeredThisRound = {}
  /\ error = ""
  /\ showOptions = TRUE
  /\ wsHandler = [gameState |-> "question", showOptions |-> TRUE,
                  currentQuestionIndex |-> 0, answeredThisRound |-> {}]
  /\ timer = [gameState |-> "question", answeredThisRound |-> {},
              currentQuestionIndex |-> 0]
  /\ pendingDeps = {}
  /\ ledgerUpdates = 0
  /\ call = NoCall

NextParse == \E u \in Participants, text \in RawTexts : PRIVMSG(u, text)

SpecParse == InitParse /\ [][NextParse]_vars

\* the option index the specification gives a trimmed, lower-cased text
OptionOf(t) ==
  CASE t = <<"!", "a">> -> 0
    [] t = <<"!", "b">> -> 1
    [] t = <<"!", "c">> -> 2
    [] t = <<"!", "d">> -> 3
    [] OTHER -> -1

\* C14: a chat text of a participant who has not answered is taken as the
\* answer with option index 0, 1, 2, 3 exactly when, trimmed and
\* lower-cased, it is '!a', '!b', '!c', '!d' and that index is below the
\* question's option count (the answer scores exactly when the index is the
\* correct one); every other text leaves the ledger and answeredThisRound as
\* they are.
C14_AnswerParsing ==
  [][\A u \in Participants, text \in RawTexts :
       (u \notin answeredThisRound /\ PRIVMSG(u, text)) =>
          LET index == OptionOf(toLowerCase(trim(text)))
              q == questions[currentQuestionIndex + 1]
          IN IF index # -1 /\ index < q.options
             THEN /\ answeredThisRound' = answeredThisRound \cup {u}
                  /\ (Score(scores', u) > Score(scores, u)) <=> (index = q.correctIndex)
             ELSE UNCHANGED <<scores, answeredThisRound>>]_vars

\* ------------------------------------------ questions endpoint: helpers --
RandomGrain == 8      \* Math.random() returns one of 0/RandomGrain .. (RandomGrain-1)/RandomGrain
DEFAULT_COUNT == 3

pageVars == <<gameState, questions, currentQuestionIndex, timeLeft, scores,
              answeredThisRound, error, showOptions, timeTaken, wsHandler,
              timer, intervalElapsed, pendingDeps, ledgerUpdates>>

\* the page is not involved
PageIdle ==
  /\ gameState = "loading"
  /\ questions = <<>>
  /\ currentQuestionIndex = 0
  /\ timeLeft = COUNTDOWN_TIME
  /\ scores = <<>>
  /\ answeredThisRound = {}
  /\ error = ""
  /\ showOptions = FALSE
  /\ timeTaken = MaxTimeTaken
  /\ wsHandler = NoHandler
  /\ timer = NoTimer
  /\ intervalElapsed = 0
  /\ pendingDeps = {}
  /\ ledgerUpdates = 0

\* the outcomes of Math.random(), as numerators over RandomGrain
RandomSamples == 0..(RandomGrain - 1)

\* const v = variance || Math.max(Math.floor(correct * 0.3), 50); variance 0
\* stands for an argument that is not given
VarianceOf(correct, variance) ==
  IF variance # 0 THEN variance ELSE Max((correct * 3) \div 10, 50)

\* correct + Math.floor(Math.random() * v * 2) - v
CandidateOf(correct, v, r) == correct + ((r * v * 2) \div RandomGrain) - v

Includes(s, x) == \E i \in 1..Len(s) : s[i] = x

\* the test that lets a candidate in, without the look at wrong
CandidateOk_NoIncludes(correct, wrong, candidate) ==
  candidate # correct /\ candidate > 0

\* candidate !== correct && candidate > 0 && !wrong.includes(candidate)
CandidateOk(correct, wrong, candidate) ==
  candidate # correct /\ candidate > 0 /\ ~Includes(wrong, candidate)

\* the arguments generateWrongAnswers is entered with
WrongCorrects == {1, 7, 1010}
WrongVariances == {0, 10}

InitWrong ==
  /\ PageIdle
  /\ \E c \in WrongCorrects, k \in 1..DEFAULT_COUNT, variance \in WrongVariances :
       call = [fn |-> "generateWrongAnswers", correct |-> c, count |-> k,
               v |-> VarianceOf(c, variance), wrong |-> <<>>, candidate |-> 0,
               returned |-> FALSE]

\* one pass of the while loop, Math.random() returning r / RandomGrain
SampleCandidate(r) ==
  /\ call.fn = "generateWrongAnswers" /\ ~call.returned
  /\ Len(call.wrong) < call.count
  /\ LET candidate == CandidateOf(call.correct, call.v, r)
     IN call' = [call EXCEPT
                   !.candidate = candidate,
                   !.wrong = IF CandidateOk(call.correct, call.wrong, candidate)
                             THEN Append(call.wrong, candidate)
                             ELSE call.wrong]
  /\ UNCHANGED pageVars

\* the loop condition fails: return wrong
ReturnWrong ==
  /\ call.fn = "generateWrongAnswers" /\ ~call.returned
  /\ ~(Len(call.wrong) < call.count)
  /\ call' = [call EXCEPT !.returned = TRUE]
  /\ UNCHANGED pageVars

NextWrong ==
  \/ \E r \in RandomSamples : SampleCandidate(r)
  \/ ReturnWrong

SpecWrong == InitWrong /\ [][NextWrong]_vars

\* the loop is scheduled as long as it has a step to take
LiveWrong == InitWrong /\ [][NextWrong]_vars /\ WF_vars(NextWrong)

\* C15: when generateWrongAnswers(correct, count) returns, its result has
\* exactly count elements, pairwise distinct, all positive and none equal to
\* correct, whatever samples the random source gave.
C15_DistractorsDistinct ==
  (call.fn = "generateWrongAnswers" /\ call.returned) =>
     /\ Len(call.wrong) = call.count
     /\ \A i, j \in 1..Len(call.wrong) : i # j => call.wrong[i] # call.wrong[j]
     /\ \A i \in 1..Len(call.wrong) :
          call.wrong[i] > 0 /\ call.wrong[i] # call.correct

\* three distractors returned for correct = 1, where most samples are not
\* positive
C15_Witness ==
  /\ call.fn = "generateWrongAnswers" /\ call.returned
  /\ call.correct = 1 /\ call.count = 3 /\ Len(call.wrong) = 3

\* C16: every call of generateWrongAnswers returns, whatever values the
\* random source gives.
C16_BoundedRetries ==
  (call.fn = "generateWrongAnswers") ~> (call.fn = "generateWrongAnswers" /\ call.returned)

\* ---------------------------------------------------- shuffleWithCorrect --
MaxWrong == 3         \* longest list of wrong options drawn

\* the outcomes of array.sort(() => Math.random() - 0.5): the comparator is
\* not consistent, so the order is whatever the engine's algorithm makes of
\* the samples; the elements are those of the array
Shuffles(array) ==
  { [i \in 1..Len(array) |-> array[p[i]]] :
      p \in { q \in [1..Len(array) -> 1..Len(array)] :
                \A i, j \in 1..Len(array) : i # j => q[i] # q[j] } }

\* the index of correct in the array as it was before the sort
indexOf_BeforeSort(array, x) == 0

\* Array.prototype.indexOf: the first index (from 0) that holds x, or -1
indexOf(array, x) ==
  IF Includes(array, x)
  THEN (CHOOSE i \in 1..Len(array) :
          array[i] = x /\ \A j \in 1..(i - 1) : array[j] # x) - 1
  ELSE -1

\* the results shuffleWithCorrect(correct, wrong) can return
shuffleWithCorrect(correct, wrong) ==
  { [options |-> shuffled, correctIndex |-> indexOf(shuffled, correct)] :
      shuffled \in Shuffles(<<correct>> \o wrong) }

\* option strings the function is entered with
ShuffleStrings == {"1", "2", "1k"}

InitShuffle ==
  /\ PageIdle
  /\ \E correct \in ShuffleStrings :
       \E wrong \in UNION { [1..n -> ShuffleStrings] : n \in 0..MaxWrong } :
         call = [fn |-> "shuffleWithCorrect", correct |-> correct, wrong |-> wrong,
                 options |-> <<>>, correctIndex |-> -1, returned |-> FALSE]

ShuffleCall ==
  /\ call.fn = "shuffleWithCorrect" /\ ~call.returned
  /\ \E result \in shuffleWithCorrect(call.correct, call.wrong) :
       call' = [call EXCEPT !.options = result.options,
                            !.correctIndex = result.correctIndex,
                            !.returned = TRUE]
  /\ UNCHANGED pageVars

NextShuffle == ShuffleCall

SpecShuffle == InitShuffle /\ [][NextShuffle]_vars

\* how often x occurs in s
Occurrences(s, x) == Cardinality({i \in 1..Len(s) : s[i] = x})

\* C17: shuffleWithCorrect(correct, wrong) returns options with the length
\* and the elements of [correct] followed by wrong, each as often as there,
\* and a correctIndex within the options that holds correct, whatever the
\* random comparator answered.
C17_ShuffleCorrect ==
  (call.fn = "shuffleWithCorrect" /\ call.returned) =>
     LET allOptions == <<call.correct>> \o call.wrong
     IN /\ Len(call.options) = Len(allOptions)
        /\ \A x \in ShuffleStrings :
             Occurrences(call.options, x) = Occurrences(allOptions, x)
        /\ call.correctIndex >= 0 /\ call.correctIndex < Len(call.options)
        /\ call.options[call.correctIndex + 1] = call.correct

\* four options, two of the wrong ones equal, the correct one moved to the end
C17_Witness ==
  /\ call.fn = "shuffleWithCorrect" /\ call.returned
  /\ Len(call.options) = 4 /\ call.correctIndex = 3
  /\ call.wrong = <<"2", "1k", "2">>

\* --------------------------------------- questions endpoint: the rules ---
\* the lists generateWrongAnswers can return, by the loop above
WrongAnswers(correct, count, variance) ==
  LET v == VarianceOf(correct, variance)
      candidates == { c \in { CandidateOf(correct, v, r) : r \in RandomSamples } :
                        c # correct /\ c > 0 }
  IN { w \in [1..count -> candidates] :
         \A i, j \in 1..count : i # j => w[i] # w[j] }

\* (x).toFixed(1).replace(/\.0$/, '') for x = num / unit; the inputs drawn
\* put no x half-way between two tenths
toFixed1(num, unit) ==
  LET tenths == (20 * num + unit) \div (2 * unit)
  IN IF tenths % 10 = 0 THEN ToString(tenths \div 10)
     ELSE ToString(tenths \div 10) \o "." \o ToString(tenths % 10)

formatNumber(num) ==
  IF num >= 1000000 THEN toFixed1(num, 1000000) \o "M"
  ELSE IF num >= 1000 THEN toFixed1(num, 1000) \o "k"
  ELSE ToString(num)

\* wrong.map(String), wrong.map(formatNumber), r => `${r}%`
MapString(w) == [i \in 1..Len(w) |-> ToString(w[i])]
MapFormatNumber(w) == [i \in 1..Len(w) |-> formatNumber(w[i])]
MapPercent(w) == [i \in 1..Len(w) |-> ToString(w[i]) \o "%"]

\* slice(0, 3)
Slice3(s) == SubSeq(s, 1, Min(3, Len(s)))

\* while (w.length < 3) w.push(fallback[w.length]), fallback[n] being the
\* value the loop pushes onto a list of length n
Fill3(w, fallback) ==
  LET push(x) == IF Len(x) < 3 THEN Append(x, fallback[Len(x)]) ELSE x
  IN push(push(push(w)))

\* new Date(seconds * 1000).getFullYear() and .getMonth(), in UTC: the civil
\* date of a day count
DaysOf(seconds) == seconds \div 86400
CivilOf(seconds) ==
  LET z == DaysOf(seconds) + 719468
      era == z \div 146097
      doe == z - era * 146097
      yoe == (doe - doe \div 1460 + doe \div 36524 - doe \div 146096) \div 365
      doy == doe - (365 * yoe + yoe \div 4 - yoe \div 100)
      mp == (5 * doy + 2) \div 153
      m == IF mp < 10 THEN mp + 3 ELSE mp - 9
  IN [year |-> yoe + era * 400 + (IF m <= 2 THEN 1 ELSE 0), month |-> m - 1]
getFullYear(seconds) == CivilOf(seconds).year
getMonth(seconds) == CivilOf(seconds).month

\* the records the Chess.com API answers with; a field that is absent or 0
\* is 0, a mode that is absent has present = FALSE
NoMode == [present |-> FALSE, last |-> 0, best |-> 0, win |-> 0, loss |-> 0, draw |-> 0]
Mode(last, best, win, loss, draw) ==
  [present |-> TRUE, last |-> last, best |-> best, win |-> win, loss |-> loss, draw |-> draw]

StatsSamples ==
  { [chess_bullet |-> NoMode, chess_blitz |-> NoMode, chess_rapid |-> NoMode,
     tacticsHighest |-> 0, tacticsLowest |-> 0, puzzleRushBest |-> 0, fide |-> 0],
    [chess_bullet |-> Mode(1400, 1450, 300, 200, 10),
     chess_blitz |-> Mode(1500, 1600, 1000, 5, 5),
     chess_rapid |-> Mode(1300, 1300, 30, 20, 5),
     tacticsHighest |-> 2000, tacticsLowest |-> 400, puzzleRushBest |-> 7, fide |-> 2100],
    [chess_bullet |-> NoMode, chess_blitz |-> Mode(1200, 1200, 120, 101, 60),
     chess_rapid |-> NoMode,
     tacticsHighest |-> 0, tacticsLowest |-> 0, puzzleRushBest |-> 0, fide |-> 0],
    \* no best rating, no lowest tactics rating, nearly every game drawn
    [chess_bullet |-> NoMode, chess_blitz |-> Mode(1200, 0, 1, 1, 298),
     chess_rapid |-> NoMode,
     tacticsHighest |-> 1800, tacticsLowest |-> 0, puzzleRushBest |-> 0, fide |-> 0] }

\* a profile without the optional fields: followers 0, no joined, country,
\* title or league; country is the sequence of the characters of the URL
NoProfile == [followers |-> 0, joined |-> 0, country |-> <<>>, title |-> "", league |-> ""]

CountrySamples ==
  { <<"p", "u", "b", "/", "U", "S">>,      \* a code of the table
    <<"p", "u", "b", "/", "n", "l">>,      \* a code of the table in lower case
    <<"p", "u", "b", "/", "X", "E">>,      \* a code the table does not have
    <<"x", "e">>,                          \* the same without a path, in lower case
    <<"p", "u", "b", "/", "X">>,           \* a code of one character
    <<"p", "u", "b", "/">> }               \* a path without a code

ProfileSamples ==
  { NoProfile,
    [NoProfile EXCEPT !.joined = 1087300800],                       \* joined 2004-06-15
    [NoProfile EXCEPT !.followers = 1010, !.joined = 1118836800],   \* joined 2005-06-15
    [NoProfile EXCEPT !.followers = 20, !.joined = 1425988800],     \* joined 2015-03-10
    [NoProfile EXCEPT !.joined = 1769947200],                       \* joined 2026-02-01
    [NoProfile EXCEPT !.joined = 1925035200],                       \* joined 2031-01-01
    [NoProfile EXCEPT !.title = "GM"],
    [NoProfile EXCEPT !.league = "Legend"],
    [NoProfile EXCEPT !.league = "crystal"] }
    \cup { [NoProfile EXCEPT !.country = c] : c \in CountrySamples }

\* new Date(): 2026-11-05
NowSamples == {1793880000}

Total(mode) == mode.win + mode.loss + mode.draw

\* a rule that does not fire
NoQuestion == [fires |-> FALSE, correct |-> "", wrong |-> <<>>]

\* rating rules in which the best blitz rating is asked for whenever the
\* current one is there
RatingRules_BestFromLast(stats) ==
  { [rule |-> "best blitz rating", correct |-> stats.chess_blitz.last],
    [rule |-> "current blitz rating", correct |-> stats.chess_blitz.last],
    [rule |-> "tactics highest", correct |-> stats.tacticsHighest],
    [rule |-> "fide rating", correct |-> stats.fide] }

\* the rules that ask for a rating: if (rating) { generateWrongAnswers(correct);
\* correct.toString(), wrong.map(String) }
RatingRules(stats) ==
  { [rule |-> "best bullet rating", correct |-> stats.chess_bullet.best],
    [rule |-> "best blitz rating", correct |-> stats.chess_blitz.best],
    [rule |-> "best rapid rating", correct |-> stats.chess_rapid.best],
    [rule |-> "current bullet rating", correct |-> stats.chess_bullet.last],
    [rule |-> "current blitz rating", correct |-> stats.chess_blitz.last],
    [rule |-> "current rapid rating", correct |-> stats.chess_rapid.last],
    [rule |-> "tactics highest", correct |-> stats.tacticsHighest],
    [rule |-> "tactics lowest",
     correct |-> IF /\ stats.tacticsLowest # 0 /\ stats.tacticsHighest # 0
                    /\ stats.tacticsHighest - stats.tacticsLowest > 200
                 THEN stats.tacticsLowest ELSE 0],
    [rule |-> "fide rating", correct |-> stats.fide] }

\* the rules that ask for a count: generateWrongAnswers(correct, 3);
\* formatNumber(correct), wrong.map(formatNumber)
CountRules(stats, profile) ==
  { [rule |-> "total blitz games", correct |-> Total(stats.chess_blitz),
     fires |-> stats.chess_blitz.present /\ Total(stats.chess_blitz) > 100],
    [rule |-> "total bullet games", correct |-> Total(stats.chess_bullet),
     fires |-> stats.chess_bullet.present /\ Total(stats.chess_bullet) > 100],
    [rule |-> "total rapid games", correct |-> Total(stats.chess_rapid),
     fires |-> stats.chess_rapid.present /\ Total(stats.chess_rapid) > 50],
    [rule |-> "blitz wins", correct |-> stats.chess_blitz.win,
     fires |-> stats.chess_blitz.win > 50],
    [rule |-> "bullet wins", correct |-> stats.chess_bullet.win,
     fires |-> stats.chess_bullet.win > 50],
    [rule |-> "blitz losses", correct |-> stats.chess_blitz.loss,
     fires |-> stats.chess_blitz.loss > 100],
    [rule |-> "bullet losses", correct |-> stats.chess_bullet.loss,
     fires |-> stats.chess_bullet.loss > 100],
    [rule |-> "blitz draws", correct |-> stats.chess_blitz.draw,
     fires |-> stats.chess_blitz.draw > 50],
    [rule |-> "followers", correct |-> profile.followers,
     fires |-> profile.followers > 10],
    [rule |-> "combined wins",
     correct |-> stats.chess_bullet.win + stats.chess_blitz.win,
     fires |-> /\ stats.chess_bullet.win # 0 /\ stats.chess_blitz.win # 0
               /\ stats.chess_bullet.win + stats.chess_blitz.win > 500] }

\* win rate: [winRate - a, winRate + b, winRate - c] filtered, filled up with
\* Math.min(99, winRate + length + d)
WinRateRule(mode, a, b, c, d) ==
  IF mode.present /\ Total(mode) > 200
  THEN LET winRate == MathRound(mode.win * 100, Total(mode))
           wrongRates == Fill3(SelectSeq(<<winRate - a, winRate + b, winRate - c>>,
                                      LAMBDA r : r > 0 /\ r <= 100 /\ r # winRate),
                               [n \in 0..2 |-> Min(99, winRate + n + d)])
       IN [fires |-> TRUE, correct |-> ToString(winRate) \o "%",
           wrong |-> MapPercent(Slice3(wrongRates))]
  ELSE NoQuestion

DrawRateRule(mode) ==
  IF mode.present /\ Total(mode) > 200 /\ mode.draw > 20
        /\ MathRound(mode.draw * 100, Total(mode)) > 0
  THEN LET drawRate == MathRound(mode.draw * 100, Total(mode))
           wrongRates == Fill3(SelectSeq(<<drawRate + 5, drawRate - 3, drawRate + 10>>,
                                      LAMBDA r : r >= 0 /\ r <= 100 /\ r # drawRate),
                               [n \in 0..2 |-> Max(1, drawRate + n * 2)])
       IN [fires |-> TRUE, correct |-> ToString(drawRate) \o "%",
           wrong |-> MapPercent(Slice3(wrongRates))]
  ELSE NoQuestion

\* a difference: [diff + offsets[1], diff + offsets[2], diff + offsets[3]]
\* filtered, filled up with diff + (length + 1) * step
DiffRule(fires, diff, offsets, step) ==
  IF fires
  THEN LET wrongDiffs == Fill3(SelectSeq([i \in 1..3 |-> diff + offsets[i]],
                                      LAMBDA x : x > 0 /\ x # diff),
                               [n \in 0..2 |-> diff + (n + 1) * step])
       IN [fires |-> TRUE, correct |-> ToString(diff),
           wrong |-> MapString(Slice3(wrongDiffs))]
  ELSE NoQuestion

Abs(x) == IF x < 0 THEN -x ELSE x

YearsOnRule(profile, now) ==
  LET yearsActive == getFullYear(now) - getFullYear(profile.joined)
  IN IF profile.joined # 0 /\ yearsActive >= 2
     THEN LET wrongYears ==
                Fill3(SelectSeq(<<yearsActive - 1, yearsActive + 1, yearsActive + 2>>,
                             LAMBDA y : y > 0 /\ y # yearsActive),
                      [n \in 0..2 |-> yearsActive + n + 2])
          IN [fires |-> TRUE, correct |-> ToString(yearsActive),
              wrong |-> MapString(Slice3(wrongYears))]
     ELSE NoQuestion

MonthsRule(profile, now) ==
  LET months == (getFullYear(now) - getFullYear(profile.joined)) * 12
                  + (getMonth(now) - getMonth(profile.joined))
  IN DiffRule(profile.joined # 0 /\ months > 24 /\ months < 200, months,
              <<-15, 20, -30>>, 15)

\* the rules whose wrong options are computed without the random source
FixedRules(stats, profile, now) ==
  { [rule |-> "blitz win rate"] @@ WinRateRule(stats.chess_blitz, 8, 7, 15, 10),
    [rule |-> "bullet win rate"] @@ WinRateRule(stats.chess_bullet, 10, 8, 18, 12),
    [rule |-> "blitz draw rate"] @@ DrawRateRule(stats.chess_blitz),
    [rule |-> "blitz below peak"] @@
       DiffRule(/\ stats.chess_blitz.best # 0 /\ stats.chess_blitz.last # 0
                /\ stats.chess_blitz.best - stats.chess_blitz.last > 20,
                stats.chess_blitz.best - stats.chess_blitz.last, <<25, -30, 50>>, 20),
    [rule |-> "bullet below peak"] @@
       DiffRule(/\ stats.chess_bullet.best # 0 /\ stats.chess_bullet.last # 0
                /\ stats.chess_bullet.best - stats.chess_bullet.last > 20,
                stats.chess_bullet.best - stats.chess_bullet.last, <<30, -25, 60>>, 25),
    [rule |-> "blitz bullet gap"] @@
       DiffRule(/\ stats.chess_blitz.last # 0 /\ stats.chess_bullet.last # 0
                /\ Abs(stats.chess_blitz.last - stats.chess_bullet.last) > 30,
                Abs(stats.chess_blitz.last - stats.chess_bullet.last), <<40, -30, 80>>, 30),
    [rule |-> "years on Chess.com"] @@ YearsOnRule(profile, now),
    [rule |-> "months on Chess.com"] @@ MonthsRule(profile, now) }

\* year joined: the neighbouring years within 2007..currentYear
YearJoinedRule(profile, now) ==
  IF profile.joined # 0
  THEN LET joinedYear == getFullYear(profile.joined)
           currentYear == getFullYear(now)
           wrongYears == SelectSeq(<<joinedYear - 1, joinedYear + 1, joinedYear - 2, joinedYear + 2>>,
                                LAMBDA y : y >= 2007 /\ y <= currentYear /\ y # joinedYear)
       IN [fires |-> TRUE, correct |-> ToString(joinedYear),
           wrong |-> MapString(Slice3(wrongYears))]
  ELSE NoQuestion

\* which of the two ratings is higher
BlitzVsBulletRule(stats) ==
  LET blitz == stats.chess_blitz.last
      bullet == stats.chess_bullet.last
  IN IF blitz # 0 /\ bullet # 0 /\ Abs(blitz - bullet) > 30
     THEN LET higher == IF blitz > bullet THEN "Blitz" ELSE "Bullet"
              wrongOptions == SelectSeq(<<"Blitz", "Bullet", "Same rating">>,
                                     LAMBDA o : o # higher)
          IN [fires |-> TRUE, correct |-> higher, wrong |-> Slice3(wrongOptions)]
     ELSE NoQuestion


\* the inputs of one request: what the two Chess.com fetches answer with and
\* the clock
EndpointInputs ==
  { [stats |-> s, profile |-> NoProfile, now |-> n] : s \in StatsSamples, n \in NowSamples }
    \cup { [stats |-> CHOOSE s \in StatsSamples : ~s.chess_blitz.present /\ s.fide = 0,
            profile |-> p, now |-> n] : p \in ProfileSamples, n \in NowSamples }

InitQuestion ==
  /\ PageIdle
  /\ \E input \in EndpointInputs :
       call = [fn |-> "GET", stats |-> input.stats, profile |-> input.profile,
               now |-> input.now,
               rule |-> "none", options |-> <<>>, correctIndex |-> -1]

\* const { options, correctIndex } = shuffleWithCorrect(correct, wrong);
\* questions.push({ id, question, options, correctIndex })
PushQuestion(rule, correct, wrongs) ==
  /\ call.fn = "GET"
  /\ call.rule = "none"
  /\ \E wrong \in wrongs : \E shuffled \in shuffleWithCorrect(correct, wrong) :
       call' = [call EXCEPT !.rule = rule, !.options = shuffled.options,
                            !.correctIndex = shuffled.correctIndex]
  /\ UNCHANGED pageVars

RatingQuestion ==
  \E r \in RatingRules(call.stats) :
    /\ r.correct # 0
    /\ PushQuestion(r.rule, ToString(r.correct),
                    { MapString(w) : w \in WrongAnswers(r.correct, DEFAULT_COUNT, 0) })

CountQuestion ==
  \E r \in CountRules(call.stats, call.profile) :
    /\ r.fires
    /\ PushQuestion(r.rule, formatNumber(r.correct),
                    { MapFormatNumber(w) : w \in WrongAnswers(r.correct, 3, 0) })

PuzzleRushQuestion ==
  LET correct == call.stats.puzzleRushBest
  IN /\ correct > 5
     /\ PushQuestion("puzzle rush", ToString(correct),
                     { MapString(w) :
                         w \in WrongAnswers(correct, 3, Max(10, (correct * 3) \div 10)) })

FixedQuestion ==
  \E r \in FixedRules(call.stats, call.profile, call.now) :
    /\ r.fires
    /\ PushQuestion(r.rule, r.correct, {r.wrong})

YearJoinedQuestion ==
  LET r == YearJoinedRule(call.profile, call.now)
  IN r.fires /\ PushQuestion("year joined", r.correct, {r.wrong})

BlitzVsBulletQuestion ==
  LET r == BlitzVsBulletRule(call.stats)
  IN r.fires /\ PushQuestion("blitz vs bullet", r.correct, {r.wrong})

\* Array.prototype.slice(begin, end)
slice(array, begin, end) == SubSeq(array, begin + 1, Min(end, Len(array)))

Reverse(array) == [i \in 1..Len(array) |-> array[Len(array) + 1 - i]]
Rotate(array, k) == [i \in 1..Len(array) |-> array[((i + k - 1) % Len(array)) + 1]]

\* outcomes of questions.sort(() => Math.random() - 0.5) drawn for a list of
\* any length: the rotations of the list and of its reverse
SortSamples(array) ==
  { Rotate(array, k) : k \in 0..(Len(array) - 1) }
    \cup { Rotate(Reverse(array), k) : k \in 0..(Len(array) - 1) }
    \cup { array }

\* String.prototype.split('/') on a sequence of characters
RECURSIVE split(_)
split(s) ==
  IF \A i \in 1..Len(s) : s[i] # "/" THEN <<s>>
  ELSE LET i == CHOOSE k \in 1..Len(s) : s[k] = "/" /\ \A j \in 1..(k - 1) : s[j] # "/"
       IN <<SubSeq(s, 1, i - 1)>> \o split(SubSeq(s, i + 1, Len(s)))

\* String.prototype.toUpperCase
toUpperCase(s) ==
  [i \in 1..Len(s) |->
     CASE s[i] = "b" -> "B"
       [] s[i] = "e" -> "E"
       [] s[i] = "l" -> "L"
       [] s[i] = "n" -> "N"
       [] s[i] = "p" -> "P"
       [] s[i] = "s" -> "S"
       [] s[i] = "u" -> "U"
       [] s[i] = "x" -> "X"
       [] OTHER -> s[i]]

\* the code-to-name table, in the order of its literal
countryNames ==
  << <<"US", "United States">>, <<"NL", "Netherlands">>, <<"AU", "Australia">>,
     <<"GB", "United Kingdom">>, <<"DE", "Germany">>, <<"FR", "France">>,
     <<"NO", "Norway">>, <<"RU", "Russia">>, <<"IN", "India">>, <<"CA", "Canada">>,
     <<"SE", "Sweden">>, <<"PL", "Poland">>, <<"ES", "Spain">>, <<"IT", "Italy">>,
     <<"BR", "Brazil">>, <<"AR", "Argentina">>, <<"IR", "Iran">>, <<"AZ", "Azerbaijan">>,
     <<"AM", "Armenia">>, <<"CN", "China">>, <<"JP", "Japan">>, <<"KR", "South Korea">>,
     <<"PH", "Philippines">>, <<"VN", "Vietnam">>, <<"UA", "Ukraine">>,
     <<"CZ", "Czech Republic">>, <<"HU", "Hungary">>, <<"RO", "Romania">>,
     <<"GR", "Greece">>, <<"TR", "Turkey">>, <<"IL", "Israel">>, <<"EG", "Egypt">>,
     <<"ZA", "South Africa">>, <<"MX", "Mexico">>, <<"CO", "Colombia">>, <<"PE", "Peru">>,
     <<"CL", "Chile">>, <<"VE", "Venezuela">>, <<"ID", "Indonesia">>, <<"MY", "Malaysia">>,
     <<"SG", "Singapore">>, <<"TH", "Thailand">>, <<"NZ", "New Zealand">>,
     <<"AT", "Austria">>, <<"BE", "Belgium">>, <<"CH", "Switzerland">>, <<"DK", "Denmark">>,
     <<"FI", "Finland">>, <<"IE", "Ireland">>, <<"PT", "Portugal">>, <<"RS", "Serbia">>,
     <<"HR", "Croatia">>, <<"SI", "Slovenia">>, <<"SK", "Slovakia">>, <<"BG", "Bulgaria">>,
     <<"LT", "Lithuania">>, <<"LV", "Latvia">>, <<"EE", "Estonia">>, <<"BY", "Belarus">>,
     <<"GE", "Georgia">>, <<"UZ", "Uzbekistan">>, <<"KZ", "Kazakhstan">>,
     <<"PK", "Pakistan">>, <<"BD", "Bangladesh">> >>

\* Object.values(countryNames)
CountryValues == [i \in 1..Len(countryNames) |-> countryNames[i][2]]

\* a lookup that takes an unknown code for no country at all
correctCountry_NoFallback(country) ==
  LET parts == split(country)
      countryCode == Join(toUpperCase(parts[Len(parts)]))
  IN IF \E i \in 1..Len(countryNames) : countryNames[i][1] = countryCode
     THEN countryNames[CHOOSE i \in 1..Len(countryNames) : countryNames[i][1] = countryCode][2]
     ELSE ""

\* countryCode = profile.country.split('/').pop()?.toUpperCase() || '';
\* correctCountry = countryNames[countryCode] || countryCode
correctCountry(country) ==
  LET parts == split(country)
      countryCode == Join(toUpperCase(parts[Len(parts)]))
  IN IF \E i \in 1..Len(countryNames) : countryNames[i][1] = countryCode
     THEN countryNames[CHOOSE i \in 1..Len(countryNames) : countryNames[i][1] = countryCode][2]
     ELSE countryCode

\* three of the other values in the order a random-comparator sort leaves
\* them in: list.filter(Keep).sort(() => Math.random() - 0.5).slice(0, 3)
ThreeOthers(others) == { Slice3(sorted) : sorted \in SortSamples(others) }

\* if (profile.country) { ... if (correctCountry && correctCountry.length > 1)
CountryFires(profile) ==
  profile.country # <<>> /\ Len(correctCountry(profile.country)) > 1

CountryQuestion ==
  /\ call.fn = "GET"
  /\ CountryFires(call.profile)
  /\ LET correct == correctCountry(call.profile.country)
     IN PushQuestion("country", correct,
                     ThreeOthers(SelectSeq(CountryValues, LAMBDA c : c # correct)))

titles == <<"GM", "IM", "FM", "NM", "CM", "WGM", "WIM", "WFM", "WCM", "WNM">>

TitleQuestion ==
  /\ call.fn = "GET"
  /\ call.profile.title # ""
  /\ PushQuestion("title", call.profile.title,
                  ThreeOthers(SelectSeq(titles, LAMBDA t : t # call.profile.title)))

leagues ==
  <<"Legend", "Champion", "Master", "Expert", "Elite", "Challenger", "Crystal", "Stone", "Wood">>

\* toLowerCase of a league name
LeagueLower(l) ==
  CASE l = "Legend" -> "legend"
    [] l = "Champion" -> "champion"
    [] l = "Master" -> "master"
    [] l = "Expert" -> "expert"
    [] l = "Elite" -> "elite"
    [] l = "Challenger" -> "challenger"
    [] l = "Crystal" -> "crystal"
    [] l = "Stone" -> "stone"
    [] l = "Wood" -> "wood"
    [] OTHER -> l

LeagueQuestion ==
  /\ call.fn = "GET"
  /\ call.profile.league # ""
  /\ PushQuestion("league", call.profile.league,
                  ThreeOthers(SelectSeq(leagues,
                     LAMBDA l : LeagueLower(l) # LeagueLower(call.profile.league))))

NextQuestion ==
  \/ RatingQuestion
  \/ CountQuestion
  \/ PuzzleRushQuestion
  \/ FixedQuestion
  \/ YearJoinedQuestion
  \/ CountryQuestion
  \/ TitleQuestion
  \/ LeagueQuestion
  \/ BlitzVsBulletQuestion

SpecQuestion == InitQuestion /\ [][NextQuestion]_vars

\* C18: every question the endpoint generates has between 2 and 4 options and
\* a correctIndex that is an index of its options, whatever the statistics,
\* the join timestamp and the clock
C18_WellFormed ==
  (call.fn = "GET" /\ call.rule # "none") =>
    /\ Len(call.options) \in 2..4
    /\ call.correctIndex \in 0..(Len(call.options) - 1)

\* C19: the options of a generated question are pairwise distinct strings
C19_OptionsUnique ==
  (call.fn = "GET" /\ call.rule # "none") =>
    \A i, j \in 1..Len(call.options) : i # j => call.options[i] # call.options[j]


\* ------------------------------------------- the response of the endpoint --
MaxFired == 16        \* most rules that fire in one request

\* shuffledQuestions.forEach((q, i) => { q.id = i + 1; })
Renumber_KeepIds(shuffledQuestions) == shuffledQuestions

Renumber(shuffledQuestions) ==
  [i \in 1..Len(shuffledQuestions) |-> [shuffledQuestions[i] EXCEPT !.id = i]]

NoResponse == [questions |-> <<>>, totalQuestions |-> -1]

\* const questions: Question[] = []; let questionId = 1;
InitGET ==
  /\ PageIdle
  /\ call = [fn |-> "GET", returned |-> FALSE, questions |-> <<>>, questionId |-> 1,
             response |-> NoResponse]

\* a rule fires: questions.push({ id: questionId++, question, ... }); the
\* field rule stands for the text of the question and keeps which push made it
FireRule ==
  /\ call.fn = "GET"
  /\ ~call.returned
  /\ Len(call.questions) < MaxFired
  /\ call' = [call EXCEPT
                !.questions = Append(@, [id |-> call.questionId, rule |-> call.questionId]),
                !.questionId = @ + 1]
  /\ UNCHANGED pageVars

\* shuffle, limit to 15, renumber, answer
Respond ==
  /\ call.fn = "GET"
  /\ ~call.returned
  /\ \E sorted \in SortSamples(call.questions) :
       LET shuffledQuestions == Renumber(slice(sorted, 0, ROUND_SIZE))
       IN call' = [call EXCEPT
                     !.returned = TRUE,
                     !.response = [questions |-> shuffledQuestions,
                                   totalQuestions |-> Len(shuffledQuestions)]]
  /\ UNCHANGED pageVars

NextGET == FireRule \/ Respond

SpecGET == InitGET /\ [][NextGET]_vars

\* C20: when F rules fired, the response holds exactly N = min(15, F)
\* questions, each one of the questions pushed and no two the same, all of
\* them when F < 15; their ids in list order are 1, 2, ..., N; and
\* totalQuestions = N
C20_RoundSize ==
  (call.fn = "GET" /\ call.returned) =>
    LET F == Len(call.questions)
        N == IF F < 15 THEN F ELSE 15
        returned == call.response.questions
    IN /\ Len(returned) = N
       /\ \A i \in 1..Len(returned) : returned[i].id = i
       /\ call.response.totalQuestions = N
       /\ \A i \in 1..Len(returned) : returned[i].rule \in 1..F
       /\ \A i, j \in 1..Len(returned) : i # j => returned[i].rule # returned[j].rule
       /\ F < 15 => { returned[i].rule : i \in 1..Len(returned) } = 1..F

\* more than 15 rules fired, the response was cut to 15 and holds the question
\* pushed last at another place than the one its first id named
C20_Witness ==
  /\ call.fn = "GET" /\ call.returned
  /\ Len(call.questions) > 15
  /\ Len(call.response.questions) = 15
  /\ \E i \in 1..15 : /\ call.response.questions[i].rule = Len(call.questions)
                      /\ call.response.questions[i].id = i


\* ------------------------------------------------- start of the round -----
\* C21: a fetched profile for which no rule fires gives the presenter no
\* round: no state with an empty question set and phase ready, countdown,
\* question-preview, question, reveal or finished is reachable
C21_EmptyRoundRejected ==
  gameState \in {"ready", "countdown", "question-preview", "question", "reveal", "finished"}
    => questions # <<>>


\* what a fetch of the Chess.com API does: answers ok, answers not ok, throws
FetchOutcomes == {"ok", "not ok", "throws"}

Usernames == {"", "hikaru"}

\* the response of GET /api/questions: its status and its JSON body
GETResponse(username, profileRes, statsRes, qs) ==
  IF username = ""
  THEN [status |-> 400, body |-> [error |-> "Username required"]]
  ELSE IF "throws" \in {profileRes, statsRes}
  THEN [status |-> 500, body |-> [error |-> "Failed to fetch player data"]]
  ELSE IF "not ok" \in {profileRes, statsRes}
  THEN [status |-> 404, body |-> [error |-> "Player not found"]]
  ELSE [status |-> 200,
        body |-> [username |-> username, questions |-> qs, totalQuestions |-> Len(qs)]]

NoReply == [status |-> 0, body |-> [error |-> ""]]

\* the page is mounted with its username parameter; what the two Chess.com
\* fetches will do is fixed by the environment
InitFetch ==
  /\ PageIdle
  /\ \E username \in Usernames, profileRes \in FetchOutcomes, statsRes \in FetchOutcomes :
       call = [fn |-> "fetchQuestions", step |-> "mount", username |-> username,
               profileRes |-> profileRes, statsRes |-> statsRes, response |-> NoReply]

\* the fetch effect of the page runs: if (!username) return; otherwise the
\* request is sent
FetchEffect ==
  /\ call.fn = "fetchQuestions" /\ call.step = "mount"
  /\ call' = [call EXCEPT !.step = IF call.username = "" THEN "returned" ELSE "requested"]
  /\ UNCHANGED pageVars

\* the endpoint answers the request
GET ==
  /\ call.fn = "fetchQuestions" /\ call.step = "requested"
  /\ \E qs \in QuestionSets :
       call' = [call EXCEPT !.step = "responded",
                            !.response = GETResponse(call.username, call.profileRes,
                                                     call.statsRes, qs)]
  /\ UNCHANGED pageVars

\* res.ok
ResOk(response) == response.status \in 200..299

\* fetchQuestions goes on after await fetch(...)
ReceiveResponse ==
  /\ call.fn = "fetchQuestions" /\ call.step = "responded"
  /\ IF ResOk(call.response)
     THEN FetchQuestionsOk(call.response.body.questions)
     ELSE FetchQuestionsFail

NextFetch ==
  \/ FetchEffect
  \/ GET
  \/ ReceiveResponse
  \/ startGame
  \/ restartGame
  \/ \E u \in Participants, m \in Messages : ChatMessage(u, m)
  \/ AdvanceTime
  \/ Tick
  \/ FlushEffects

SpecFetch == InitFetch /\ [][NextFetch]_vars

\* the username is missing, or one of the two fetches fails
FetchFails ==
  call.username = "" \/ call.profileRes # "ok" \/ call.statsRes # "ok"

\* the fetch effect has not run to its end: no request was made yet, or the
\* request or the handling of its response is still outstanding
FetchInFlight ==
  \/ call.step \in {"mount", "requested"}
  \/ call.step = "responded" /\ gameState = "loading" /\ error = ""

\* C22: when the username is missing or one of the two fetches answers not
\* ok or throws, the endpoint's response is an error without questions, the
\* page records the error once its fetch is over, the phase stays 'loading'
\* with no questions and no score, and no second request is made
C22_FetchFailureBlocks ==
  /\ [](FetchFails =>
          /\ gameState = "loading" /\ questions = <<>> /\ scores = <<>>
          /\ call.step = "responded" =>
               (~ResOk(call.response) /\ "questions" \notin DOMAIN call.response.body)
          /\ ~FetchInFlight => error # "")
  /\ [][call'.step = "requested" => call.step \in {"mount", "requested"}]_vars


\* the last path segment of a country value, upper-cased
CodeOf(country) == Join(toUpperCase(split(country)[Len(split(country))]))

CountryKeys == { countryNames[i][1] : i \in 1..Len(countryNames) }
CountryNameSet == { countryNames[i][2] : i \in 1..Len(countryNames) }

\* the country question has the code as its correct answer and three names
\* of the table as its wrong options
CodeIsAnswer ==
  /\ Len(call.options) = 4
  /\ call.options[call.correctIndex + 1] = CodeOf(call.profile.country)
  /\ \A i \in 1..4 : i # call.correctIndex + 1 => call.options[i] \in CountryNameSet

\* C24 as stated: for every country value whose code is not a key of the
\* table the country rule makes a question with the upper-cased code as the
\* correct answer and three names of the table as wrong options
C24_CountryFallback ==
  (call.fn = "GET" /\ call.profile.country # <<>>
     /\ CodeOf(call.profile.country) \notin CountryKeys) =>
       /\ CountryFires(call.profile)
       /\ call.rule = "country" => CodeIsAnswer

\* C24, amended: this holds for the codes of two characters or more; for a
\* country value whose code is not a key and has fewer than two characters
\* (a path without a code, a code of one character) the country rule makes
\* no question
C24_CountryFallbackOfCodes ==
  (call.fn = "GET" /\ call.profile.country # <<>>
     /\ CodeOf(call.profile.country) \notin CountryKeys) =>
       IF Len(CodeOf(call.profile.country)) >= 2
       THEN /\ CountryFires(call.profile)
            /\ call.rule = "country" => CodeIsAnswer
       ELSE /\ ~CountryFires(call.profile)
            /\ call.rule # "country"

\* the country 'xe', given without a path and in lower case, asked as 'XE'
C24_Witness ==
  /\ call.fn = "GET" /\ call.rule = "country"
  /\ call.profile.country = <<"x", "e">>
  /\ call.options[call.correctIndex + 1] = "XE"
  /\ call.correctIndex = 2


\* the rules that fire for a pair of Chess.com answers
FiredRules(stats, profile, now) ==
  { r.rule : r \in { x \in RatingRules(stats) : x.correct # 0 } }
    \cup { r.rule : r \in { x \in CountRules(stats, profile) : x.fires } }
    \cup { r.rule : r \in { x \in FixedRules(stats, profile, now) : x.fires } }
    \cup (IF stats.puzzleRushBest > 5 THEN {"puzzle rush"} ELSE {})
    \cup (IF YearJoinedRule(profile, now).fires THEN {"year joined"} ELSE {})
    \cup (IF CountryFires(profile) THEN {"country"} ELSE {})
    \cup (IF profile.title # "" THEN {"title"} ELSE {})
    \cup (IF profile.league # "" THEN {"league"} ELSE {})
    \cup (IF BlitzVsBulletRule(stats).fires THEN {"blitz vs bullet"} ELSE {})

\* the optional fields that a pair of answers holds
PresentFields(stats, profile) ==
  LET OfMode(name, mode) ==
        (IF mode.present THEN {name \o ".record"} ELSE {})
          \cup (IF mode.last # 0 THEN {name \o ".last"} ELSE {})
          \cup (IF mode.best # 0 THEN {name \o ".best"} ELSE {})
          \cup (IF mode.win # 0 THEN {name \o ".win"} ELSE {})
          \cup (IF mode.loss # 0 THEN {name \o ".loss"} ELSE {})
          \cup (IF mode.draw # 0 THEN {name \o ".draw"} ELSE {})
  IN OfMode("chess_bullet", stats.chess_bullet)
       \cup OfMode("chess_blitz", stats.chess_blitz)
       \cup OfMode("chess_rapid", stats.chess_rapid)
       \cup (IF stats.tacticsHighest # 0 THEN {"tactics.highest"} ELSE {})
       \cup (IF stats.tacticsLowest # 0 THEN {"tactics.lowest"} ELSE {})
       \cup (IF stats.puzzleRushBest # 0 THEN {"puzzle_rush"} ELSE {})
       \cup (IF stats.fide # 0 THEN {"fide"} ELSE {})
       \cup (IF profile.followers # 0 THEN {"followers"} ELSE {})
       \cup (IF profile.joined # 0 THEN {"joined"} ELSE {})
       \cup (IF profile.country # <<>> THEN {"country"} ELSE {})
       \cup (IF profile.title # "" THEN {"title"} ELSE {})
       \cup (IF profile.league # "" THEN {"league"} ELSE {})

\* the optional fields the question of a rule is made from
Reads(rule) ==
  CASE rule = "best bullet rating" -> {"chess_bullet.best"}
    [] rule = "best blitz rating" -> {"chess_blitz.best"}
    [] rule = "best rapid rating" -> {"chess_rapid.best"}
    [] rule = "current bullet rating" -> {"chess_bullet.last"}
    [] rule = "current blitz rating" -> {"chess_blitz.last"}
    [] rule = "current rapid rating" -> {"chess_rapid.last"}
    [] rule = "tactics highest" -> {"tactics.highest"}
    [] rule = "tactics lowest" -> {"tactics.lowest", "tactics.highest"}
    [] rule = "fide rating" -> {"fide"}
    [] rule = "total blitz games" -> {"chess_blitz.record"}
    [] rule = "total bullet games" -> {"chess_bullet.record"}
    [] rule = "total rapid games" -> {"chess_rapid.record"}
    [] rule = "blitz wins" -> {"chess_blitz.win"}
    [] rule = "bullet wins" -> {"chess_bullet.win"}
    [] rule = "blitz losses" -> {"chess_blitz.loss"}
    [] rule = "bullet losses" -> {"chess_bullet.loss"}
    [] rule = "blitz draws" -> {"chess_blitz.draw"}
    [] rule = "followers" -> {"followers"}
    [] rule = "combined wins" -> {"chess_bullet.win", "chess_blitz.win"}
    [] rule = "puzzle rush" -> {"puzzle_rush"}
    [] rule = "blitz win rate" -> {"chess_blitz.record"}
    [] rule = "bullet win rate" -> {"chess_bullet.record"}
    [] rule = "blitz draw rate" -> {"chess_blitz.record"}
    [] rule = "blitz below peak" -> {"chess_blitz.best", "chess_blitz.last"}
    [] rule = "bullet below peak" -> {"chess_bullet.best", "chess_bullet.last"}
    [] rule = "blitz bullet gap" -> {"chess_blitz.last", "chess_bullet.last"}
    [] rule = "blitz vs bullet" -> {"chess_blitz.last", "chess_bullet.last"}
    [] rule = "years on Chess.com" -> {"joined"}
    [] rule = "months on Chess.com" -> {"joined"}
    [] rule = "year joined" -> {"joined"}
    [] rule = "country" -> {"country"}
    [] rule = "title" -> {"title"}
    [] rule = "league" -> {"league"}

RuleNames ==
  {"best bullet rating", "best blitz rating", "best rapid rating",
   "current bullet rating", "current blitz rating", "current rapid rating",
   "tactics highest", "tactics lowest", "fide rating", "total blitz games",
   "total bullet games", "total rapid games", "blitz wins", "bullet wins",
   "blitz losses", "bullet losses", "blitz draws", "followers", "combined wins",
   "puzzle rush", "blitz win rate", "bullet win rate", "blitz draw rate",
   "blitz below peak", "bullet below peak", "blitz bullet gap", "blitz vs bullet",
   "years on Chess.com", "months on Chess.com", "year joined", "country", "title",
   "league"}

\* the guard of a rule on the values of the fields it reads
GuardPasses(rule, stats, profile, now) ==
  LET blitz == stats.chess_blitz
      bullet == stats.chess_bullet
      rapid == stats.chess_rapid
      years == getFullYear(now) - getFullYear(profile.joined)
      months == years * 12 + getMonth(now) - getMonth(profile.joined)
      gap == Abs(blitz.last - bullet.last)
  IN CASE rule = "tactics lowest" -> stats.tacticsHighest - stats.tacticsLowest > 200
       [] rule = "total blitz games" -> Total(blitz) > 100
       [] rule = "total bullet games" -> Total(bullet) > 100
       [] rule = "total rapid games" -> Total(rapid) > 50
       [] rule = "blitz wins" -> blitz.win > 50
       [] rule = "bullet wins" -> bullet.win > 50
       [] rule = "blitz losses" -> blitz.loss > 100
       [] rule = "bullet losses" -> bullet.loss > 100
       [] rule = "blitz draws" -> blitz.draw > 50
       [] rule = "followers" -> profile.followers > 10
       [] rule = "combined wins" -> blitz.win + bullet.win > 500
       [] rule = "puzzle rush" -> stats.puzzleRushBest > 5
       [] rule = "blitz win rate" -> Total(blitz) > 200
       [] rule = "bullet win rate" -> Total(bullet) > 200
       [] rule = "blitz draw rate" ->
            Total(blitz) > 200 /\ blitz.draw > 20 /\ 200 * blitz.draw >= Total(blitz)
       [] rule = "blitz below peak" -> blitz.best - blitz.last > 20
       [] rule = "bullet below peak" -> bullet.best - bullet.last > 20
       [] rule = "blitz bullet gap" -> gap > 30
       [] rule = "blitz vs bullet" -> gap > 30
       [] rule = "years on Chess.com" -> years >= 2
       [] rule = "months on Chess.com" -> months > 24 /\ months < 200
       [] rule = "country" -> Len(CodeOf(profile.country)) > 1
       [] OTHER -> TRUE

Percentages == { ToString(n) \o "%" : n \in 0..100 }

\* C30: every option of the blitz win rate, bullet win rate and blitz draw
\* rate questions, the correct one and the wrong ones, is a whole percentage
\* between 0% and 100%
C30_PercentagesInRange ==
  (call.fn = "GET" /\ call.rule \in {"blitz win rate", "bullet win rate", "blitz draw rate"})
    => \A i \in 1..Len(call.options) : call.options[i] \in Percentages


\* a chat text that is no answer to the current question: trimmed and
\* lower-cased it is none of '!a', '!b', '!c', '!d', or its option index is
\* not below the question's option count
Rejected(text) ==
  LET index == OptionOf(toLowerCase(trim(text)))
  IN index = -1 \/ index >= questions[currentQuestionIndex + 1].options

\* C26: during the Open phase a chat text that is no answer to the current
\* question leaves the ledger, answeredThisRound and what the chat handler
\* knows as they are, so that the sender's next valid answer is taken as
\* their first one
C26_RejectedKeepsAnswer ==
  [][\A u \in Participants, text \in RawTexts :
       (gameState = "question" /\ Rejected(text) /\ PRIVMSG(u, text)) =>
          UNCHANGED <<scores, answeredThisRound, wsHandler, ledgerUpdates>>]_vars


\* C25: answeredThisRound is empty whenever the page enters the Open phase
\* of a question, the first one, a later one or one of a round played after
\* a restart; while the phase lasts it changes only when the chat handler
\* accepts an answer to the question on screen, and then exactly the sender
\* is added
C25_AnsweredPerQuestion ==
  [][/\ (gameState # "question" /\ gameState' = "question") => answeredThisRound' = {}
     /\ (gameState = "question" /\ gameState' = "question") =>
          \/ UNCHANGED <<scores, answeredThisRound>>
          \/ \E u \in Participants :
               /\ answeredThisRound' = answeredThisRound \cup {u}
               /\ wsHandler.currentQuestionIndex = currentQuestionIndex
               /\ \E m \in Messages :
                    Accepts(wsHandler, u, m) /\ ChatMessage(u, m)]_vars

\* the Open phase of the second question: participant 1, who scored on the
\* first question, has not answered it, participant 2 has
C25_Witness ==
  /\ gameState = "question" /\ currentQuestionIndex = 1
  /\ Score(scores, 1) > 0
  /\ answeredThisRound = {2}


\* the phases that run on a timer, and the seconds each is given
TimedPhases == {"countdown", "question-preview", "question", "reveal"}
Duration(phase) ==
  CASE phase = "countdown" -> 10
    [] phase = "question-preview" -> 5
    [] phase = "question" -> 15
    [] phase = "reveal" -> 10

\* C27: a timed phase is entered with timeLeft at its duration (10 for the
\* countdown, 5 for a preview, 15 for an Open phase, 10 for a reveal),
\* within the phase timeLeft changes only by a timer tick, which takes 1 from
\* it, and the phase ends with the tick that finds timeLeft at 1: the phase
\* lasts as many ticks as its duration, and timeLeft is between 1 and the
\* duration all the while
C27_PhaseDurations ==
  [][/\ (gameState' # gameState /\ gameState' \in TimedPhases)
          => timeLeft' = Duration(gameState')
     /\ gameState' \in TimedPhases => timeLeft' \in 1..Duration(gameState')
     /\ gameState \in TimedPhases =>
          \/ UNCHANGED <<gameState, timeLeft>>
          \/ Tick /\ gameState' = gameState /\ timeLeft > 1 /\ timeLeft' = timeLeft - 1
          \/ Tick /\ gameState' # gameState /\ timeLeft = 1]_vars

\* the countdown of a round started right after a restart: the effects of
\* restartGame are still to be flushed
C27_Witness ==
  /\ gameState = "countdown" /\ timeLeft = COUNTDOWN_TIME
  /\ "currentQuestionIndex" \in pendingDeps


\* ------------------------------------------------- what the page shows ---
\* a question panel that marks the correct option whenever the options are
\* on screen
correctAnswerShown_WithOptions ==
  /\ gameState \in {"question-preview", "question", "reveal"}
  /\ currentQuestionIndex + 1 <= Len(questions)
  /\ showOptions

\* the question panel marks the correct option: the green option of the
\* grid (showResult && isCorrect) or the 'Answer:' line
correctAnswerShown ==
  /\ gameState \in {"question-preview", "question", "reveal"}
  /\ currentQuestionIndex + 1 <= Len(questions)
  /\ \/ showOptions /\ gameState = "reveal"
     \/ gameState = "reveal"

\* C28: in a preview the options are hidden, in an Open phase and in a
\* reveal they are shown, and the correct answer is marked in a reveal only
C28_OptionVisibility ==
  /\ gameState = "question-preview" => ~showOptions
  /\ gameState \in {"question", "reveal"} => showOptions
  /\ correctAnswerShown => gameState = "reveal"

\* the preview of the second question, entered from the reveal of the first
C28_Witness ==
  /\ gameState = "question-preview" /\ currentQuestionIndex = 1
  /\ ~showOptions /\ ~correctAnswerShown
  /\ scores # <<>>


\* C29: no participant's streak is above currentQuestionIndex + 1, the
\* number of questions opened so far in the round, and a streak grows by 1
\* at a time and only with the participant's first answer to a question
C29_StreakCountsQuestions ==
  /\ [](\A i \in 1..Len(scores) : scores[i].streak <= currentQuestionIndex + 1)
  /\ [][\A u \in Participants :
          Streak(scores', u) > Streak(scores, u) =>
            /\ Streak(scores', u) = Streak(scores, u) + 1
            /\ u \notin answeredThisRound]_vars
=============================================================================
